---- MODULE Spec2Model ----
(***************************************************************************)
(* Model of samples/environment/recommender4StudentsEnv.py: the gym        *)
(* environment Recommender4StudentsEnv that assigns students to projects.  *)
(*                                                                         *)
(* Python lists are functions over 0..n-1 (grid, counters) or sequences    *)
(* (rosters, weighted lists).  Python floats are modelled as exact         *)
(* rationals <<numerator, denominator>>; rounding is not modelled.         *)
(* A call that raises leaves behind whatever it had already assigned.      *)
(***************************************************************************)
EXTENDS Integers, Sequences, FiniteSets, TLC

\* ------------------------------------------------------------------ bounds
\* an environment is built with 1 .. NStudents students, 1 .. NProjects projects
\* of capacity 1 .. MaxParticipants and 1 .. NumberOptions option slots; its
\* grid (students * options) and its rosters (projects * options) have at
\* most MaxCells cells each
NStudents == 2
NProjects == 2
NumberOptions == 2
MaxParticipants == 2
MaxCells == 4

\* --------------------------------------------------------------- constants
ALPHA == 5
GAMMA == 3
EPSILON == 2

\* --------------------------------------------------------------- rationals
RECURSIVE Gcd(_, _)
Gcd(a, b) == IF b = 0 THEN a ELSE Gcd(b, a % b)

Abs(x) == IF x < 0 THEN -x ELSE x

Norm(q) ==
    LET g == Gcd(Abs(q[1]), q[2])
    IN  IF q[1] = 0 THEN <<0, 1>> ELSE <<q[1] \div g, q[2] \div g>>

R(n) == <<n, 1>>
RAdd(a, b) == Norm(<<a[1] * b[2] + b[1] * a[2], a[2] * b[2]>>)
RSub(a, b) == Norm(<<a[1] * b[2] - b[1] * a[2], a[2] * b[2]>>)
RMul(a, b) == Norm(<<a[1] * b[1], a[2] * b[2]>>)
\* a / n for an integer n > 0 (a zero divisor raises and is handled by callers)
RDivInt(a, n) == Norm(<<a[1], a[2] * n>>)
\* a / b for a rational b > 0
RDiv(a, b) == Norm(<<a[1] * b[2], a[2] * b[1]>>)
RLeq(a, b) == a[1] * b[2] <= b[1] * a[2]
RLess(a, b) == a[1] * b[2] < b[1] * a[2]

\* importance / 5.0
Fifth(importance) == Norm(<<importance, 5>>)

\* ------------------------------------------------------------ input records
\* geodesic(a, b).km of the external geopy library, for three places
DistanceKm(a, b) ==
    IF a = b THEN 0
    ELSE IF {a, b} = {"BCN", "SAB"} THEN 20
    ELSE 500

Pref(importance, value) == [importance |-> importance, value |-> value]
PrefList(importance, list) == [importance |-> importance, list |-> list]

StudentAna ==
    [preferredLocation |-> Pref(5, "BCN"),
     preferredRemote |-> Pref(3, TRUE),
     preferredMinimumSalary |-> Pref(4, 800),
     preferredTypeInternship |-> PrefList(2, {"research"}),
     age |-> 20, degree |-> 1, university |-> "UPC", averageMark |-> 7,
     skills |-> {"python"}, workExperience |-> {"dev"},
     volunteerExperience |-> {}, languages |-> {"en"}]

StudentBen ==
    [preferredLocation |-> Pref(0, "MAD"),
     preferredRemote |-> Pref(5, FALSE),
     preferredMinimumSalary |-> Pref(2, 900),
     preferredTypeInternship |-> PrefList(0, {}),
     age |-> 25, degree |-> 3, university |-> "UB", averageMark |-> 9,
     skills |-> {"python", "sql"}, workExperience |-> {},
     volunteerExperience |-> {"ngo"}, languages |-> {"en", "ca"}]

\* a student who weighs nothing: every importance is 0
StudentNil ==
    [preferredLocation |-> Pref(0, "BCN"),
     preferredRemote |-> Pref(0, TRUE),
     preferredMinimumSalary |-> Pref(0, 0),
     preferredTypeInternship |-> PrefList(0, {}),
     age |-> 22, degree |-> 2, university |-> "UPC", averageMark |-> 8,
     skills |-> {"sql"}, workExperience |-> {},
     volunteerExperience |-> {}, languages |-> {}]

StudentCatalogue == <<StudentAna, StudentBen, StudentNil>>

\* the student lists an environment is built with: n consecutive entries
\* of the catalogue, starting anywhere
StudentLists(n) ==
    {[s \in 0 .. (n - 1) |-> StudentCatalogue[((s + k) % Len(StudentCatalogue)) + 1]] :
        k \in 0 .. (Len(StudentCatalogue) - 1)}

\* "id" and "nParticipants" are filled in by ProjectLists
ProjectLab ==
    [id |-> 0, location |-> "BCN", remote |-> TRUE, minimumSalary |-> 1000,
     type |-> "research", nParticipants |-> 1,
     preferredAgeParticipants |-> Pref(5, 25),
     preferredDegreeParticipants |-> Pref(3, 3),
     preferredUniversityParticipants |-> PrefList(0, {}),
     preferredAverageMark |-> Pref(0, 0),
     preferredWorkExperienceParticipants |-> <<<<5, "dev">>, <<2, "ops">>>>,
     preferredVolunteerExperienceParticipants |-> <<>>,
     preferredLanguagesParticipants |-> <<>>,
     preferredSkillsNeeded |-> <<<<5, "python">>, <<3, "sql">>>>]

\* every resource-side score of this project stays within [0, 1]
ProjectFirm ==
    [id |-> 0, location |-> "SAB", remote |-> FALSE, minimumSalary |-> 600,
     type |-> "company", nParticipants |-> 2,
     preferredAgeParticipants |-> Pref(0, 0),
     preferredDegreeParticipants |-> Pref(0, 0),
     preferredUniversityParticipants |-> PrefList(5, {"UPC", "UB"}),
     preferredAverageMark |-> Pref(4, 8),
     preferredWorkExperienceParticipants |-> <<>>,
     preferredVolunteerExperienceParticipants |-> <<<<3, "ngo">>>>,
     preferredLanguagesParticipants |-> <<<<4, "ca">>, <<5, "en">>>>,
     preferredSkillsNeeded |-> <<<<4, "sql">>>>]

\* a project that needs no skills
ProjectShop ==
    [id |-> 0, location |-> "MAD", remote |-> FALSE, minimumSalary |-> 500,
     type |-> "company", nParticipants |-> 2,
     preferredAgeParticipants |-> Pref(0, 0),
     preferredDegreeParticipants |-> Pref(0, 0),
     preferredUniversityParticipants |-> PrefList(3, {"UB"}),
     preferredAverageMark |-> Pref(0, 0),
     preferredWorkExperienceParticipants |-> <<>>,
     preferredVolunteerExperienceParticipants |-> <<>>,
     preferredLanguagesParticipants |-> <<>>,
     preferredSkillsNeeded |-> <<>>]

\* a project that weighs nothing: every importance 0, every list empty
ProjectNil ==
    [id |-> 0, location |-> "BCN", remote |-> TRUE, minimumSalary |-> 900,
     type |-> "research", nParticipants |-> 1,
     preferredAgeParticipants |-> Pref(0, 0),
     preferredDegreeParticipants |-> Pref(0, 0),
     preferredUniversityParticipants |-> PrefList(0, {}),
     preferredAverageMark |-> Pref(0, 0),
     preferredWorkExperienceParticipants |-> <<>>,
     preferredVolunteerExperienceParticipants |-> <<>>,
     preferredLanguagesParticipants |-> <<>>,
     preferredSkillsNeeded |-> <<<<5, "python">>>>]

ProjectCatalogue == <<ProjectLab, ProjectFirm, ProjectShop, ProjectNil>>

\* the project lists: n consecutive entries of the catalogue, each with
\* its position as id; capacities run through 1 .. MaxParticipants along
\* the list, starting anywhere
ProjectLists(n) ==
    {[p \in 0 .. (n - 1) |->
        [ProjectCatalogue[((p + k) % Len(ProjectCatalogue)) + 1]
            EXCEPT !.id = p, !.nParticipants = ((p + c) % MaxParticipants) + 1]] :
        k \in 0 .. (Len(ProjectCatalogue) - 1),
        c \in 0 .. (MaxParticipants - 1)}

\* ----------------------------------------------------------------- state
VARIABLES
    students,                   \* self.students
    projects,                   \* self.projects
    numberOptions,              \* self.numberOptions
    withImage,                  \* self.withImage
    state,                      \* self.state: grid student x option, -1 = unassigned
    assigned,                   \* self.assigned: per option counter
    studentsAssignedToProject,  \* rosters: project x option -> sequence of students
    call,                       \* the last call made on the environment
    result,                     \* what that call returned or raised
    acceptedPairs,              \* history: (student, project) steps accepted since reset
    wiped,                      \* history: the last call was a reset of a non-fresh grid
    raisedOnce                  \* history: some call since construction has raised

vars == <<students, projects, numberOptions, withImage, state, assigned,
          studentsAssignedToProject, call, result, acceptedPairs, wiped, raisedOnce>>

\* len(self.students), range(len(self.students)), range(self.numberOptions)
nStudents == Cardinality(DOMAIN students)
StudentIds == DOMAIN students
nProjects == Cardinality(DOMAIN projects)
ProjectIds == DOMAIN projects
Options == 0 .. (numberOptions - 1)

\* ------------------------------------------------------- Python indexing
\* list[i] accepts -n <= i < n and counts a negative i from the end
InRange(i, n) == -n <= i /\ i < n
PyIdx(i, n) == IF i < 0 THEN i + n ELSE i

Value(v) == [raised |-> FALSE, value |-> v]
Raised == [raised |-> TRUE, value |-> <<0, 1>>]

\* ------------------------------------------------------ scoring functions
distanceCalculation(studentLocation, projectLocation) ==
    LET distance == DistanceKm(studentLocation, projectLocation)
    IN  IF distance > 50 THEN R(0) ELSE Norm(<<50 - distance, 50>>)

salaryCalculation(studentSalary, projectSalary) ==
    LET difference == Abs(studentSalary - projectSalary)
    IN  IF studentSalary <= projectSalary THEN R(1)
        ELSE IF difference <= 500 THEN Norm(<<difference, 500>>)
        ELSE R(0)

subtractionCalculation(firstValue, secondValue, maxValue) ==
    LET difference == Abs(firstValue - secondValue)
    IN  IF difference <= maxValue THEN R(difference) ELSE R(0)

markCalculation(studentMark, projectMark) ==
    LET difference == Abs(studentMark - projectMark)
    IN  IF studentMark <= projectMark THEN R(1)
        ELSE IF difference <= 1 THEN R(difference)
        ELSE R(0)

\* one "if importance != 0" block: <<factors added, punctuation added>>
Factor(importance, score) ==
    IF importance # 0 THEN <<1, RMul(score, Fifth(importance))>> ELSE <<0, R(0)>>

\* one "if len(list) != 0" block over a list of <<importance, tag>> entries
RECURSIVE ListSum(_, _, _, _)
ListSum(list, tags, n, k) ==
    IF k > Len(list) THEN R(0)
    ELSE RAdd(IF list[k][2] \in tags THEN RDivInt(Fifth(list[k][1]), n) ELSE R(0),
              ListSum(list, tags, n, k + 1))

ListFactor(list, tags) ==
    IF Len(list) # 0 THEN <<1, ListSum(list, tags, Len(list), 1)>> ELSE <<0, R(0)>>

RECURSIVE SumFactors(_, _)
SumFactors(fs, k) ==
    IF k > Len(fs) THEN <<0, R(0)>>
    ELSE LET rest == SumFactors(fs, k + 1)
         IN  <<fs[k][1] + rest[1], RAdd(fs[k][2], rest[2])>>

\* punctuation / factorsToEvaluate; float division by 0.0 raises ZeroDivisionError
Average(fs) ==
    LET total == SumFactors(fs, 1)
    IN  IF total[1] = 0 THEN Raised ELSE Value(RDivInt(total[2], total[1]))

studentPreferencesPunctuation(student, project) ==
    Average(<<
        Factor(student.preferredLocation.importance,
               distanceCalculation(student.preferredLocation.value, project.location)),
        Factor(student.preferredRemote.importance,
               IF project.remote = student.preferredRemote.value THEN R(1) ELSE R(0)),
        Factor(student.preferredMinimumSalary.importance,
               salaryCalculation(student.preferredMinimumSalary.value, project.minimumSalary)),
        Factor(student.preferredTypeInternship.importance,
               IF project.type \in student.preferredTypeInternship.list THEN R(1) ELSE R(0))
    >>)

projectPreferencesPunctuation(student, project) ==
    Average(<<
        Factor(project.preferredAgeParticipants.importance,
               subtractionCalculation(project.preferredAgeParticipants.value, student.age, 5)),
        Factor(project.preferredDegreeParticipants.importance,
               subtractionCalculation(project.preferredDegreeParticipants.value, student.degree, 2)),
        Factor(project.preferredUniversityParticipants.importance,
               IF student.university \in project.preferredUniversityParticipants.list
               THEN R(1) ELSE R(0)),
        Factor(project.preferredAverageMark.importance,
               markCalculation(student.averageMark, project.preferredAverageMark.value)),
        ListFactor(project.preferredWorkExperienceParticipants, student.workExperience),
        ListFactor(project.preferredVolunteerExperienceParticipants, student.volunteerExperience),
        ListFactor(project.preferredLanguagesParticipants, student.languages)
    >>)

\* ------------------------------------------------------------ skill synergy
Student(studentNumber) == students[PyIdx(studentNumber, nStudents)]
Project(projectNumber) == projects[PyIdx(projectNumber, nProjects)]
Roster(projectNumber, option) ==
    studentsAssignedToProject[PyIdx(projectNumber, nProjects)][option]

\* the inner "for studentId in roster" loop: position of the first member
\* holding the skill (where the loop breaks), 0 when nobody holds it
RECURSIVE FirstHolder(_, _, _)
FirstHolder(roster, tag, k) ==
    IF k > Len(roster) THEN 0
    ELSE IF tag \in Student(roster[k]).skills THEN k
    ELSE FirstHolder(roster, tag, k + 1)

\* the test of line 145 moved out of the "if skill in" block: the old
\* coverage is credited for a first member who does not hold the skill
RECURSIVE SkillTotalsOldUnguarded(_, _, _, _)
SkillTotalsOldUnguarded(skillsNeeded, roster, studentNumber, k) ==
    IF k > Len(skillsNeeded) THEN <<R(0), R(0), R(0)>>
    ELSE LET rest == SkillTotalsOldUnguarded(skillsNeeded, roster, studentNumber, k + 1)
             weight == Fifth(skillsNeeded[k][1])
             holder == FirstHolder(roster, skillsNeeded[k][2], 1)
         IN  <<RAdd(weight, rest[1]),
               IF holder # 0 THEN RAdd(weight, rest[2]) ELSE rest[2],
               IF Len(roster) > 0 /\ roster[1] # studentNumber
               THEN RAdd(weight, rest[3]) ELSE rest[3]>>

\* the "for skill in preferredSkillsNeeded" loop, before the two divisions:
\* <<maximumSkillsPunctuation, skillsPunctuation, oldSkillsPunctuation>>
RECURSIVE SkillTotals(_, _, _, _)
SkillTotals(skillsNeeded, roster, studentNumber, k) ==
    IF k > Len(skillsNeeded) THEN <<R(0), R(0), R(0)>>
    ELSE LET rest == SkillTotals(skillsNeeded, roster, studentNumber, k + 1)
             weight == Fifth(skillsNeeded[k][1])
             holder == FirstHolder(roster, skillsNeeded[k][2], 1)
         IN  <<RAdd(weight, rest[1]),
               IF holder # 0 THEN RAdd(weight, rest[2]) ELSE rest[2],
               IF holder # 0 /\ roster[holder] # studentNumber
               THEN RAdd(weight, rest[3]) ELSE rest[3]>>

\* the roster that line 141 reads: the bucket as it is when the reward is
\* computed, which is before line 253 appends the new student
RosterAtReward(project, option) == Roster(project.id, option)

\* skillsPunctuation - oldSkillsPunctuation, after both are divided by the
\* maximum; a maximum of 0.0 raises ZeroDivisionError
skillsTerm(studentNumber, projectNumber, option) ==
    LET project == Project(projectNumber)
        totals == SkillTotals(project.preferredSkillsNeeded,
                              RosterAtReward(project, option), studentNumber, 1)
    IN  IF totals[1] = R(0) THEN Raised
        ELSE Value(RSub(RDiv(totals[2], totals[1]), RDiv(totals[3], totals[1])))

NoTerms == [student |-> R(0), project |-> R(0), skill |-> R(0)]

rewardCalculation(studentNumber, projectNumber, option) ==
    LET student == Student(studentNumber)
        project == Project(projectNumber)
        sp == studentPreferencesPunctuation(student, project)
        pp == projectPreferencesPunctuation(student, project)
        sk == skillsTerm(studentNumber, projectNumber, option)
    IN  IF sp.raised \/ pp.raised \/ sk.raised
        THEN [raised |-> TRUE, value |-> R(0), terms |-> NoTerms]
        ELSE [raised |-> FALSE,
              value |-> RAdd(RAdd(RMul(R(ALPHA), sp.value), RMul(R(GAMMA), pp.value)),
                             RMul(R(EPSILON), sk.value)),
              terms |-> [student |-> sp.value, project |-> pp.value, skill |-> sk.value]]

\* the flat uint8 buffer is indexed as imageState[student][option]: the first
\* index yields a numpy scalar, and assigning into a scalar raises TypeError
imageStateGeneration ==
    IF nStudents > 0 /\ numberOptions > 0 THEN Raised ELSE Value(R(0))

isDone(counters) == \A option \in Options : counters[option] = nStudents

\* ------------------------------------------------------------------- step
RowValues(row) == {row[option] : option \in Options}

\* "<=" written for "<" at line 246
HasRoomOffByOne(projectNumber, option) ==
    Len(Roster(projectNumber, option)) <= Project(projectNumber).nParticipants

HasRoom(projectNumber, option) ==
    Len(Roster(projectNumber, option)) < Project(projectNumber).nParticipants

\* the membership test of line 249 left out
NotHeldUnchecked(studentNumber, projectNumber) == TRUE

NotHeld(studentNumber, projectNumber) ==
    Project(projectNumber).id \notin RowValues(state[PyIdx(studentNumber, nStudents)])

\* the break of line 263 left out: the scan goes on to later slots
BreakNever(row, option) == FALSE

\* line 262: stop the scan at the first slot that is still unassigned
BreakAtOpenSlot(row, option) == row[option] = -1

\* the "for option in range" loop up to its return or break
RECURSIVE Scan(_, _, _)
Scan(studentNumber, projectNumber, option) ==
    IF option >= numberOptions THEN [kind |-> "noop", option |-> option]
    ELSE IF ~InRange(studentNumber, nStudents)
    THEN [kind |-> "IndexError", option |-> option]
    ELSE LET row == state[PyIdx(studentNumber, nStudents)]
             open == row[option] = -1
         IN  IF open /\ ~InRange(projectNumber, nProjects)
             THEN [kind |-> "IndexError", option |-> option]
             ELSE IF open /\ HasRoom(projectNumber, option)
                          /\ NotHeld(studentNumber, projectNumber)
             THEN [kind |-> "accept", option |-> option]
             ELSE IF BreakAtOpenSlot(row, option)
             THEN [kind |-> "noop", option |-> option]
             ELSE Scan(studentNumber, projectNumber, option + 1)

NoScores == <<R(0), R(0), R(0)>>

\* the object returned in place of the grid shares its storage
deepcopyAlias(grid) == [shared |-> TRUE, value |-> grid]

\* deepcopy(self.state): a new object with the same value
deepcopy(grid) == [shared |-> FALSE, value |-> grid]

Returned(obs, reward, done, info, terms) ==
    [kind |-> "returned", exc |-> "", obs |-> <<obs>>, reward |-> reward,
     done |-> done, info |-> info, terms |-> terms, scores |-> NoScores]

Raise(exc) ==
    [kind |-> "raised", exc |-> exc, obs |-> <<>>, reward |-> R(0),
     done |-> FALSE, info |-> "", terms |-> NoTerms, scores |-> NoScores]

\* "=" written for "+=" at line 253
AppendStudentOverwrite(roster, studentNumber) == <<studentNumber>>

\* line 253: roster += [studentNumber]
AppendStudent(roster, studentNumber) == Append(roster, studentNumber)

\* line 265 returning the grid copy whatever withImage says
NoopResultPlain ==
    Returned(deepcopy(state), R(0), isDone(assigned), "Nothing done", NoTerms)

\* line 265: the return of a step that assigned nothing
NoopResult ==
    IF withImage /\ imageStateGeneration.raised THEN Raise("TypeError")
    ELSE Returned(deepcopy(state), R(0), isDone(assigned), "Nothing done", NoTerms)

Step(studentNumber, projectNumber) ==
    LET scan == Scan(studentNumber, projectNumber, 0)
        s == PyIdx(studentNumber, nStudents)
        p == PyIdx(projectNumber, nProjects)
        option == scan.option
    IN  /\ call' = [op |-> "step", student |-> studentNumber, project |-> projectNumber]
        /\ UNCHANGED <<students, projects, numberOptions, withImage>>
        /\ CASE scan.kind = "IndexError" ->
                  /\ result' = Raise("IndexError")
                  /\ UNCHANGED <<state, assigned, studentsAssignedToProject, acceptedPairs>>
             [] scan.kind = "noop" ->
                  /\ result' = NoopResult
                  /\ UNCHANGED <<state, assigned, studentsAssignedToProject, acceptedPairs>>
             [] scan.kind = "accept" ->
                  LET reward == rewardCalculation(studentNumber, projectNumber, option)
                  IN  /\ state' = [state EXCEPT ![s][option] = projects[p].id]
                      /\ IF reward.raised
                         THEN /\ result' = Raise("ZeroDivisionError")
                              /\ UNCHANGED <<assigned, studentsAssignedToProject,
                                             acceptedPairs>>
                         ELSE /\ assigned' = [assigned EXCEPT ![option] = @ + 1]
                              /\ studentsAssignedToProject' =
                                    [studentsAssignedToProject EXCEPT
                                        ![p][option] = AppendStudent(@, studentNumber)]
                              /\ acceptedPairs' =
                                    acceptedPairs \cup {<<studentNumber, projectNumber>>}
                              /\ result' = Returned(deepcopy(state'), reward.value,
                                                    isDone(assigned'), "assigned",
                                                    reward.terms)
        /\ wiped' = FALSE
        /\ raisedOnce' = (raisedOnce \/ result'.kind = "raised")

\* ------------------------------------------------------------- stepScores
RECURSIVE RSum(_, _)
RSum(seq, k) == IF k > Len(seq) THEN R(0) ELSE RAdd(seq[k], RSum(seq, k + 1))

AnyRaised(seq) == \E k \in 1 .. Len(seq) : seq[k].raised
Values(seq) == [k \in 1 .. Len(seq) |-> seq[k].value]

\* line 195: project = self.projects[self.state[studentNumber][option]];
\* the cell is used as a list index without a test for -1
CellProject(cell) == projects[PyIdx(cell, nProjects)]

\* lines 194-197 for one student: the punctuation of each option slot
StudentSlotScores(s) ==
    [k \in 1 .. numberOptions |->
        studentPreferencesPunctuation(students[s], CellProject(state[s][k - 1]))]

\* lines 190-199: totalStudentsPunctuation
TotalStudentsPunctuation ==
    LET perStudent == [k \in 1 .. nStudents |->
            LET slots == StudentSlotScores(k - 1)
            IN  IF AnyRaised(slots) THEN Raised
                ELSE Value(RDivInt(RSum(Values(slots), 1), numberOptions))]
    IN  IF AnyRaised(perStudent) THEN Raised ELSE Value(RSum(Values(perStudent), 1))

\* lines 209-211 for one bucket: the punctuation of each roster member
BucketProjectScores(p, option) ==
    LET roster == studentsAssignedToProject[p][option]
    IN  [k \in 1 .. Len(roster) |->
            projectPreferencesPunctuation(Student(roster[k]), projects[p])]

\* lines 213-221 for one bucket: skillsPunctuation / maximumSkillsPunctuation
BucketSkillScore(p, option) ==
    LET totals == SkillTotals(projects[p].preferredSkillsNeeded,
                              Roster(projects[p].id, option), nStudents, 1)
    IN  IF totals[1] = R(0) THEN Raised ELSE Value(RDiv(totals[2], totals[1]))

\* lines 201-224: <<totalProjectsPunctuation, totalSkillsPunctuation>>
TotalProjectsPunctuation ==
    LET perProject == [k \in 1 .. nProjects |->
            LET members == [o \in 1 .. numberOptions |->
                               LET scores == BucketProjectScores(k - 1, o - 1)
                               IN  IF AnyRaised(scores) THEN Raised
                                   ELSE Value(RSum(Values(scores), 1))]
                skills == [o \in 1 .. numberOptions |-> BucketSkillScore(k - 1, o - 1)]
            IN  IF AnyRaised(members) \/ AnyRaised(skills) THEN Raised
                ELSE Value(<<RDivInt(RSum(Values(members), 1), numberOptions),
                             RDivInt(RSum(Values(skills), 1), numberOptions)>>)]
    IN  IF AnyRaised(perProject) THEN Raised
        ELSE Value(<<RSum([k \in 1 .. nProjects |-> perProject[k].value[1]], 1),
                     RSum([k \in 1 .. nProjects |-> perProject[k].value[2]], 1)>>)

\* lines 187-228: the three means, or ZeroDivisionError
stepScores ==
    LET studentsTotal == TotalStudentsPunctuation
        projectsTotal == TotalProjectsPunctuation
    IN  IF studentsTotal.raised \/ projectsTotal.raised THEN Raised
        ELSE Value(<<RDivInt(studentsTotal.value, nStudents),
                     RDivInt(projectsTotal.value[1], nProjects),
                     RDivInt(projectsTotal.value[2], nProjects)>>)

StepScores ==
    /\ call' = [op |-> "stepScores", student |-> 0, project |-> 0]
    /\ result' = IF stepScores.raised THEN Raise("ZeroDivisionError")
                 ELSE [kind |-> "returned", exc |-> "", obs |-> <<>>, reward |-> R(0),
                       done |-> FALSE, info |-> "", terms |-> NoTerms,
                       scores |-> stepScores.value]
    /\ wiped' = FALSE
    /\ raisedOnce' = (raisedOnce \/ result'.kind = "raised")
    /\ UNCHANGED <<students, projects, numberOptions, withImage, state, assigned,
                   studentsAssignedToProject, acceptedPairs>>

\* ------------------------------------------------------------ construction
\* lines 43-45: the grid, counters and rosters __init__ builds
ConstructedState == [s \in StudentIds |-> [option \in Options |-> -1]]
ConstructedAssigned == [option \in Options |-> 0]
ConstructedRosters == [p \in ProjectIds |-> [option \in Options |-> <<>>]]

\* ------------------------------------------------------------------ reset
FreshState == [s \in StudentIds |-> [option \in Options |-> -1]]
FreshAssigned == [option \in Options |-> 0]

\* line 272 left out: reset keeps the rosters
FreshRostersKept == studentsAssignedToProject
FreshRosters == [p \in ProjectIds |-> [option \in Options |-> <<>>]]

Reset ==
    /\ state' = FreshState
    /\ assigned' = FreshAssigned
    /\ studentsAssignedToProject' = FreshRosters
    /\ acceptedPairs' = {}
    /\ call' = [op |-> "reset", student |-> 0, project |-> 0]
    /\ result' = IF withImage /\ imageStateGeneration.raised THEN Raise("TypeError")
                 ELSE Returned(deepcopy(state'), R(0), FALSE, "", NoTerms)
    /\ wiped' = (state # FreshState)
    /\ raisedOnce' = (raisedOnce \/ result'.kind = "raised")
    /\ UNCHANGED <<students, projects, numberOptions, withImage>>

\* ------------------------------------------------------------ specification
Init ==
    /\ \E n \in 1 .. NStudents, options \in 1 .. NumberOptions :
          /\ n * options <= MaxCells
          /\ students \in StudentLists(n)
          /\ numberOptions = options
    /\ \E n \in 1 .. NProjects :
          /\ n * numberOptions <= MaxCells
          /\ projects \in ProjectLists(n)
    /\ withImage \in BOOLEAN
    /\ state = ConstructedState
    /\ assigned = ConstructedAssigned
    /\ studentsAssignedToProject = ConstructedRosters
    /\ acceptedPairs = {}
    /\ wiped = FALSE
    /\ raisedOnce = FALSE
    /\ call = [op |-> "init", student |-> 0, project |-> 0]
    /\ result = [kind |-> "returned", exc |-> "", obs |-> <<>>, reward |-> R(0),
                 done |-> FALSE, info |-> "", terms |-> NoTerms, scores |-> NoScores]

\* the actions a caller passes to step
ActionStudents == StudentIds
ActionProjects == ProjectIds

Next ==
    \/ \E studentNumber \in ActionStudents, projectNumber \in ActionProjects :
          Step(studentNumber, projectNumber)
    \/ Reset
    \/ StepScores

Spec == Init /\ [][Next]_vars

\* any integer a caller may pass: one below and one above the valid range
AnyStudents == -1 .. nStudents
AnyProjects == -1 .. nProjects

NextAny ==
    \/ \E studentNumber \in AnyStudents, projectNumber \in AnyProjects :
          Step(studentNumber, projectNumber)
    \/ Reset
    \/ StepScores

SpecAny == Init /\ [][NextAny]_vars

\* the caller overwrites every cell of the snapshot it was handed
MutateSnapshot(fill) ==
    /\ result.kind = "returned"
    /\ result.obs # <<>>
    /\ LET scribbled == [s \in StudentIds |-> [option \in Options |-> fill]]
       IN  /\ result' = [result EXCEPT !.obs = <<[@[1] EXCEPT !.value = scribbled]>>]
           /\ state' = IF result.obs[1].shared THEN scribbled ELSE state
    /\ call' = [op |-> "mutate", student |-> 0, project |-> 0]
    /\ UNCHANGED <<students, projects, numberOptions, withImage, assigned,
                   studentsAssignedToProject, acceptedPairs, wiped, raisedOnce>>

NextCaller ==
    \/ Next
    \/ \E fill \in {-1, 0} : MutateSnapshot(fill)

SpecCaller == Init /\ [][NextCaller]_vars

\* ================================================================== claims
\* the lowest unassigned slot of a grid row, numberOptions when the row is full
FirstOpen(row) ==
    IF \E option \in Options : row[option] = -1
    THEN CHOOSE option \in Options :
            /\ row[option] = -1
            /\ \A earlier \in Options : earlier < option => row[earlier] # -1
    ELSE numberOptions

IsStep(c) == c.op = "step"
Accepted == IsStep(call) /\ result.kind = "returned" /\ result.info = "assigned"
NoOp == IsStep(call) /\ result.kind = "returned" /\ result.info = "Nothing done"
Frame == UNCHANGED <<state, assigned, studentsAssignedToProject>>

CapacityInvariant ==
    \A p \in ProjectIds, option \in Options :
        Len(studentsAssignedToProject[p][option]) <= projects[p].nParticipants

FullBucketRejected ==
    (/\ IsStep(call')
     /\ FirstOpen(state[call'.student]) < numberOptions
     /\ Len(studentsAssignedToProject[call'.project][FirstOpen(state[call'.student])])
            >= projects[call'.project].nParticipants)
    => (Frame /\ result'.info # "assigned")

\* C1: no roster bucket ever holds more students than its project's
\* nParticipants, and a step whose target bucket (the project, at the
\* student's first open option) is already full changes nothing and assigns
\* nothing.
C1_CapacityLaw == [](CapacityInvariant) /\ [][FullBucketRejected]_vars

\* a step was turned down because the bucket at the student's first open
\* option is full, although the student does not hold the project
C1_Witness ==
    /\ NoOp
    /\ FirstOpen(state[call.student]) < numberOptions
    /\ Len(studentsAssignedToProject[call.project][FirstOpen(state[call.student])])
           = projects[call.project].nParticipants
    /\ projects[call.project].id \notin RowValues(state[call.student])

\* C2: no student's row of the grid holds the same project id in two
\* different option slots.
C2_NoDuplicateAssignment ==
    \A s \in StudentIds, o1 \in Options, o2 \in Options :
        (o1 # o2 /\ state[s][o1] # -1) => state[s][o1] # state[s][o2]

\* a step was turned down only because the student already holds the
\* project: the first open slot's bucket still has room
C2_Witness ==
    /\ NoOp
    /\ projects[call.project].id \in RowValues(state[call.student])
    /\ FirstOpen(state[call.student]) < numberOptions
    /\ HasRoom(call.project, FirstOpen(state[call.student]))

MonotonicFill ==
    \A s \in StudentIds, k \in Options :
        state[s][k] # -1 => \A j \in Options : j < k => state[s][j] # -1

WritesOnlyFirstOpen ==
    IsStep(call') =>
        /\ \A s \in StudentIds, option \in Options :
              state'[s][option] # state[s][option] =>
                 /\ s = call'.student
                 /\ option = FirstOpen(state[s])
                 /\ state[s][option] = -1
                 /\ state'[s][option] = projects[call'.project].id
        /\ LET open == FirstOpen(state[call'.student])
           IN  (open < numberOptions
                /\ ~(HasRoom(call'.project, open) /\ NotHeld(call'.student, call'.project)))
               => state' = state

\* C3: slot k of a student is filled only if slots 0..k-1 are filled; a step
\* writes no grid cell other than the student's lowest unassigned slot, and
\* when acceptance fails there it writes nothing, even if a later slot's
\* bucket has room.
C3_MonotonicFill == [](MonotonicFill) /\ [][WritesOnlyFirstOpen]_vars

\* a step was turned down at the first open slot (bucket full) while the
\* bucket of a later slot had room
C3_Witness ==
    /\ NoOp
    /\ LET open == FirstOpen(state[call.student])
       IN  /\ open < numberOptions
           /\ ~HasRoom(call.project, open)
           /\ NotHeld(call.student, call.project)
           /\ \E later \in Options : later > open /\ HasRoom(call.project, later)

GridFull == \A s \in StudentIds, option \in Options : state[s][option] # -1

\* C4: isDone, and the done flag a step returns, is true exactly when every
\* student has every option slot filled in the grid.
C4_TerminationIffGridFull ==
    /\ isDone(assigned) <=> GridFull
    /\ (IsStep(call) /\ result.kind = "returned") => (result.done <=> GridFull)

StepErrorAtomic ==
    (IsStep(call') /\ result'.kind = "raised" /\ result'.exc = "ZeroDivisionError")
    => Frame

\* C5: a step that ends in a scoring error (ZeroDivisionError) leaves the
\* grid, the rosters and the counters as they were before the call.
C5_StepErrorAtomic == [][StepErrorAtomic]_vars

\* C6: the reward of every accepted step lies in [0, 10].
C6_RewardBounds ==
    Accepted => (RLeq(R(0), result.reward) /\ RLeq(result.reward, R(10)))

AcceptedOption == CHOOSE option \in Options :
                     state[call.student][option] = projects[call.project].id

BringsNewSkill ==
    LET roster == studentsAssignedToProject[call.project][AcceptedOption]
        needed == projects[call.project].preferredSkillsNeeded
    IN  \E k \in 1 .. Len(needed) :
           /\ needed[k][1] # 0
           /\ needed[k][2] \in students[call.student].skills
           /\ \A j \in 1 .. (Len(roster) - 1) :
                 needed[k][2] \notin students[roster[j]].skills

\* what lines 135-151 yield when the bucket they scan already has the new
\* student in it (the roster after line 253)
SynergyOverBucket ==
    LET roster == studentsAssignedToProject[call.project][AcceptedOption]
        totals == SkillTotals(projects[call.project].preferredSkillsNeeded,
                              roster, call.student, 1)
    IN  RSub(RDiv(totals[2], totals[1]), RDiv(totals[3], totals[1]))

\* C7: the skill term of an accepted step is computed over the bucket with
\* the new student in it (coverage of that roster minus coverage by the
\* other members), so it is strictly positive when the new student holds a
\* needed skill of nonzero importance that nobody else in the bucket holds.
C7_SkillSynergyCountsNewStudent ==
    Accepted =>
        /\ result.terms.skill = SynergyOverBucket
        /\ BringsNewSkill => RLess(R(0), result.terms.skill)

StepRejected(c) == IsStep(c) /\ Scan(c.student, c.project, 0).kind = "noop"

RejectedIsNoOpReturn ==
    StepRejected(call') =>
        /\ Frame
        /\ result'.kind = "returned"
        /\ result'.reward = R(0)
        /\ result'.done = isDone(assigned)
        /\ result'.info = "Nothing done"

\* C8: a rejected step (bucket full, project already held, or no open slot)
\* returns normally with reward 0, the current done flag and the no-op info,
\* and leaves grid, rosters and counters unchanged.
C8_RejectedStepReturnsNoOp == [][RejectedIsNoOpReturn]_vars

RepeatIsNoOp ==
    (IsStep(call') /\ <<call'.student, call'.project>> \in acceptedPairs) =>
        /\ Frame
        /\ result'.kind = "returned"
        /\ result'.reward = R(0)
        /\ result'.info = "Nothing done"

\* C9: once step(student, project) has been accepted, every later identical
\* step before a reset returns the no-op outcome: reward 0, state unchanged.
C9_RepeatedStepIsNoOp == [][RepeatIsNoOp]_vars

NoSkillsStepCompletes ==
    (/\ IsStep(call')
     /\ Scan(call'.student, call'.project, 0).kind = "accept"
     /\ projects[call'.project].preferredSkillsNeeded = <<>>)
    => /\ result'.kind = "returned"
       /\ result'.terms.skill = R(0)
       /\ result'.reward = RAdd(RMul(R(5), result'.terms.student),
                                RMul(R(3), result'.terms.project))

\* C10: an accepted step on a project with an empty skill-needs list
\* completes normally with skill term 0 and reward
\* 5 * studentPreference + 3 * projectPreference.
C10_NoSkillsStepCompletes == [][NoSkillsStepCompletes]_vars

\* ---------------------------------------------------------------- C11
\* C11: a step whose student index is outside 0 .. nStudents-1 or whose
\* project index is outside 0 .. nProjects-1, negative values included,
\* leaves the grid, the rosters and the counters unchanged.
C11_InvalidActionRejected ==
    [][(IsStep(call') /\ (call'.student \notin StudentIds
                          \/ call'.project \notin ProjectIds)) => Frame]_vars

\* ---------------------------------------------------------------- C12
\* C12: after reset() the grid, the rosters and the counters equal those
\* of a freshly constructed environment with the same students, projects
\* and option count.
C12_ResetRoundTrip ==
    call.op = "reset" =>
        /\ state = ConstructedState
        /\ assigned = ConstructedAssigned
        /\ studentsAssignedToProject = ConstructedRosters

\* a reset has just discarded a grid that held assignments
C12_Witness == call.op = "reset" /\ wiped

\* ---------------------------------------------------------------- C13
StepAccepted(c, r) == IsStep(c) /\ r.kind = "returned" /\ r.info = "assigned"

AcceptedEffect ==
    StepAccepted(call', result') =>
        \E s \in StudentIds, p \in ProjectIds, option \in Options :
            /\ state[s][option] = -1
            /\ state' = [state EXCEPT ![s][option] = projects[p].id]
            /\ studentsAssignedToProject' =
                  [studentsAssignedToProject EXCEPT ![p][option] = Append(@, s)]
            /\ assigned' = [assigned EXCEPT ![option] = @ + 1]

NeverReverts ==
    call'.op # "reset" =>
        /\ \A s \in StudentIds, option \in Options :
              state[s][option] # -1 => state'[s][option] = state[s][option]
        /\ \A p \in ProjectIds, option \in Options :
              LET old == studentsAssignedToProject[p][option]
                  new == studentsAssignedToProject'[p][option]
              IN  Len(new) >= Len(old) /\ SubSeq(new, 1, Len(old)) = old
        /\ \A option \in Options : assigned'[option] >= assigned[option]

\* C13: an accepted step changes exactly one grid cell from unassigned to a
\* project id, appends the student to exactly one roster bucket and adds one
\* to exactly one counter; between resets no filled cell is cleared or
\* overwritten, no roster shrinks and no counter decreases.
C13_AcceptedStepEffect == [][AcceptedEffect /\ NeverReverts]_vars

\* a step was accepted into a bucket that already held another student
C13_Witness ==
    /\ Accepted
    /\ Len(studentsAssignedToProject[call.project][AcceptedOption]) >= 2

\* ---------------------------------------------------------------- C14
\* C14: the skill term (skillsPunctuation - oldSkillsPunctuation) of every
\* accepted step is >= 0.
C14_SkillTermNonNegative == Accepted => RLeq(R(0), result.terms.skill)

\* a step was accepted on a project that needs skills, into a bucket whose
\* earlier member lacks one of them
C14_Witness ==
    /\ Accepted
    /\ LET roster == studentsAssignedToProject[call.project][AcceptedOption]
           needed == projects[call.project].preferredSkillsNeeded
       IN  /\ Len(roster) >= 2
           /\ \E k \in 1 .. Len(needed) :
                 needed[k][2] \notin students[roster[1]].skills

\* ---------------------------------------------------------------- C15
RECURSIVE CapacityFrom(_)
CapacityFrom(p) ==
    IF p >= nProjects THEN 0 ELSE projects[p].nParticipants + CapacityFrom(p + 1)

NeverDoneWhenShort ==
    CapacityFrom(0) < nStudents =>
        /\ ~isDone(assigned)
        /\ (IsStep(call) /\ result.kind = "returned") => ~result.done

\* two students, one project of capacity 1, one option slot
Scenario ==
    /\ nStudents = 2
    /\ nProjects = 1
    /\ numberOptions = 1
    /\ projects[0].nParticipants = 1

SecondStudentRejected ==
    (/\ Scenario
     /\ IsStep(call')
     /\ Len(studentsAssignedToProject[0][0]) = 1
     /\ call'.student # studentsAssignedToProject[0][0][1])
    => (Frame /\ result'.info # "assigned")

\* C15: with two students, one project of capacity 1 and one option slot,
\* once one student's step is accepted the other student's step is rejected;
\* and whenever the summed capacity of the projects is smaller than the
\* number of students, done is never true.
C15_CapacityScenario == [](NeverDoneWhenShort) /\ [][SecondStudentRejected]_vars

\* in the scenario, the second student's step has just been turned down
C15_Witness ==
    /\ Scenario
    /\ NoOp
    /\ Len(studentsAssignedToProject[0][0]) = 1
    /\ call.student # studentsAssignedToProject[0][0][1]
    /\ ~result.done

\* ---------------------------------------------------------------- C16
\* C16: a mutation the caller applies to a snapshot returned by step or by
\* reset leaves the internal grid, rosters and counters unchanged.
C16_SnapshotIndependent == [][call'.op = "mutate" => Frame]_vars

\* the caller has overwritten a snapshot, which now differs from the grid
C16_Witness ==
    /\ call.op = "mutate"
    /\ result.obs[1].value # state

\* ---------------------------------------------------------------- C17
PlainGrid(r, grid) == r.kind = "returned" /\ r.obs = <<deepcopy(grid)>>

InBucket(s, p, option) ==
    \E k \in 1 .. Len(studentsAssignedToProject[p][option]) :
        studentsAssignedToProject[p][option][k] = s

RECURSIVE RosterLengthsFrom(_, _)
RosterLengthsFrom(p, option) ==
    IF p >= nProjects THEN 0
    ELSE Len(studentsAssignedToProject[p][option]) + RosterLengthsFrom(p + 1, option)

Consistent ==
    /\ \A s \in StudentIds, p \in ProjectIds, option \in Options :
          InBucket(s, p, option) <=> state[s][option] = projects[p].id
    /\ \A p \in ProjectIds, option \in Options :
          \A j, k \in 1 .. Len(studentsAssignedToProject[p][option]) :
              j # k => studentsAssignedToProject[p][option][j]
                          # studentsAssignedToProject[p][option][k]
    /\ \A option \in Options : RosterLengthsFrom(0, option) = assigned[option]

\* C18: in every state reached by calls that all returned normally, student
\* s is in roster bucket (p, o) exactly when grid cell (s, o) holds p's id,
\* no student is twice in a bucket, and for every option the roster lengths
\* over all projects add up to assigned[o].
C18_GridRosterConsistent == ~raisedOnce => Consistent

\* ---------------------------------------------------------------- C19
DoneIsAbsorbing ==
    /\ (isDone(assigned) /\ IsStep(call')) =>
          /\ Frame
          /\ result'.kind = "returned"
          /\ result'.reward = R(0)
          /\ result'.done
    /\ call'.op = "reset" => ~isDone(assigned')

\* C19: once done is true, every step is a no-op that returns reward 0 and
\* done = true and leaves the state unchanged, until reset(), after which
\* done is false.
C19_DoneIsAbsorbing == [][DoneIsAbsorbing]_vars

\* ---------------------------------------------------------------- C20
\* the agent mean when only cells holding a project id are scored
AssignedOnlyAgentMean ==
    LET perStudent == [k \in 1 .. nStudents |->
            RDivInt(RSum([o \in 1 .. numberOptions |->
                            IF state[k - 1][o - 1] = -1 THEN R(0)
                            ELSE studentPreferencesPunctuation(
                                    students[k - 1],
                                    projects[state[k - 1][o - 1]]).value], 1),
                    numberOptions)]
    IN  RDivInt(RSum(perStudent, 1), nStudents)

\* C20: stepScores leaves grid, rosters and counters unchanged, and its
\* agent mean scores only the cells that hold a project id: an unassigned
\* cell (-1) is not scored as if it were assigned to a project.
C20_ScoresIgnoreUnassigned ==
    [][(call'.op = "stepScores" /\ result'.kind = "returned") =>
          (Frame /\ result'.scores[1] = AssignedOnlyAgentMean)]_vars

====
